---- MODULE Spec2Model ----
(***************************************************************************)
(* Model of the two streaming search commands of splunk_app_for_openai:    *)
(*   bin/openai_insight.py    OpenAIInsightCommand  (grouped summarizer)   *)
(*   bin/openai_streaming.py  OpenAIStreaming       (per-record streamer)  *)
(* The two commands share no state; each has its own specification.        *)
(***************************************************************************)
EXTENDS Integers, Sequences, FiniteSets, TLC

\* ------------------------------------------------------------------ bounds
\* Longest input sequence fed to the summarizer.
MaxRecords == 3
\* Largest configured batch_size explored (the option allows 1..500).
MaxBatch == 2
\* Largest configured window_sec explored (the option allows any integer >= 0).
MaxWindow == 1
\* Latest reading of the wall clock, in seconds.
MaxTime == 1

\* ------------------------------------------------------------ small helpers
Min(a, b) == IF a <= b THEN a ELSE b

\* Python's xs[:n] for n >= 0.
Take(xs, n) == SubSeq(xs, 1, Min(Len(xs), n))

\* Python's xs[n:] for n >= 0.
Drop(xs, n) == SubSeq(xs, Min(Len(xs), n) + 1, Len(xs))

RECURSIVE SumSeq(_)
SumSeq(xs) == IF xs = <<>> THEN 0 ELSE Head(xs) + SumSeq(Tail(xs))

\* ------------------------------------------------------------- the state
\* The summarizer's stream() (openai_insight.py).
VARIABLES
    pc,          \* where stream() is: start, loop, final, done, fatal, raised
    env,         \* the process environment read at lines 25-26
    batch_size,  \* self.batch_size
    window_sec,  \* self.window_sec (None when not given)
    buffers,     \* buffers: group key -> buffered records
    first_ts,    \* first_ts: group key -> start time (None when absent)
    keyOrder,    \* the keys of buffers, in insertion order
    todo,        \* keys the end-of-stream loop (line 103) has still to visit
    now,         \* the wall clock, time.time()
    consumed,    \* the input records read so far
    yielded,     \* the records yielded so far
    calls,       \* the completion calls issued so far
    last,        \* what the latest step did
    stamps       \* group key -> the times at which its buffered records were appended

ivars == <<pc, env, batch_size, window_sec, buffers, first_ts, keyOrder, todo,
           now, consumed, yielded, calls, last, stamps>>

\* flush() applied to one buffer.
VARIABLES
    f_batch,     \* buffers[key] on entry
    f_bs,        \* self.batch_size
    f_outcome,   \* what the completion call does
    f_res        \* what flush did

fvars == <<f_batch, f_bs, f_outcome, f_res>>

\* The streamer (openai_streaming.py).
VARIABLES
    s_pc,         \* where stream() is: start, read, batch, done, fatal, raised
    s_key,        \* OPENAI_API_KEY (line 18)
    s_in,         \* the input records read so far
    record_batch, \* record_batch of stream()
    s_idx,        \* position of _process_batch in its batch
    s_eof,        \* whether the input is exhausted
    s_out,        \* the records yielded so far
    s_posts,      \* the requests.post calls made so far
    s_dev,        \* how many records or responses so far were not the usual ones
    s_last        \* what the latest step did

svars == <<s_pc, s_key, s_in, record_batch, s_idx, s_eof, s_out, s_posts, s_dev, s_last>>

\* _substitute_placeholders applied to one template and record.
VARIABLES
    t_template,   \* prompt_template
    t_record,     \* record
    t_result      \* the returned text, once the call was made

tvars == <<t_template, t_record, t_result>>

\* The transport-line loop of _process_batch applied to one response.
VARIABLES
    l_lines,      \* what response.iter_lines() yields
    l_pos,        \* how many lines were read
    l_acc,        \* openai_response
    l_pc          \* reading, done (loop left), raised (an exception left the loop)

lvars == <<l_lines, l_pos, l_acc, l_pc>>

vars == <<ivars, fvars, svars, tvars, lvars>>

\* What each part leaves alone.
notInsight == <<fvars, svars, tvars, lvars>>
notFlush == <<ivars, svars, tvars, lvars>>
notStream == <<ivars, fvars, tvars, lvars>>
notSubst == <<ivars, fvars, svars, lvars>>
notLines == <<ivars, fvars, svars, tvars>>

\* ======================================================================
\*                      openai_insight.py : the summarizer
\* ======================================================================

\* Absent option value (Option(require=False) without default): Python None.
None == -1

\* The sentinel group key of stream(), line 95.
AllKey == "__all__"

\* Text values are sequences of tokens.  A token is one of
\*   [k |-> "key", s |-> name]   a key name as written (api_key, PASSWORD, ...)
\*   [k |-> "eq",  s |-> "="]
\*   [k |-> "txt", s |-> run]    a run of other non-space characters
\*   [k |-> "sp",  s |-> " "]    white space
Key(s) == [k |-> "key", s |-> s]
Eq == [k |-> "eq", s |-> "="]
Txt(s) == [k |-> "txt", s |-> s]
Sp == [k |-> "sp", s |-> " "]

\* A field value: a string (token sequence) or a non-string (an integer).
StrV(toks) == [t |-> "str", v |-> toks]

\* The decimal text of a natural number, one character per digit.
RECURSIVE Decimal(_)
Decimal(n) ==
    IF n < 10 THEN <<<<"0", "1", "2", "3", "4", "5", "6", "7", "8", "9">>[n + 1]>>
    ELSE Decimal(n \div 10) \o Decimal(n % 10)

IntV(n) == [t |-> "int", v |-> Decimal(n)]

\* A multivalue field: a list holding one string, not a str for line 52.
ListV(toks) == [t |-> "list", v |-> toks]

\* r.get(f, default) on a record (a function from field names to values).
Get(r, f, default) == IF f \in DOMAIN r THEN r[f] ELSE default

\* The option values of the run: fields="msg", group_by="host" (lines 35-36;
\* group_field is "" when group_by is unset or blank).
field_list == <<"msg">>
group_field == "host"
mode == "summarize"

\* Line 95: the group key of a record.
GroupKeyIgnoresField(r) == AllKey
GroupKey(r) == IF group_field = "" THEN AllKey ELSE Get(r, group_field, AllKey)

\* redact_re.sub(r"\1=***", v), default pattern
\*   (?i)(api[_-]?key|password|token)=\S+
\* leftmost match first: a key name, "=", then the longest run of non-space
\* tokens (at least one); the match is replaced by the key name and "=***".
RECURSIVE NonSpaceRun(_)
NonSpaceRun(toks) ==
    IF toks = <<>> \/ Head(toks).k = "sp" THEN 0
    ELSE 1 + NonSpaceRun(Tail(toks))

\* Where a match of the pattern starts in toks.
MatchAt(toks, i) ==
    /\ i + 2 <= Len(toks)
    /\ toks[i].k = "key"
    /\ toks[i + 1].k = "eq"
    /\ toks[i + 2].k # "sp"

RedactSubOnce(toks) ==
    IF \E i \in 1..Len(toks) : MatchAt(toks, i)
    THEN LET i == CHOOSE j \in 1..Len(toks) :
                    MatchAt(toks, j) /\ \A h \in 1..(j - 1) : ~MatchAt(toks, h)
         IN  Take(toks, i) \o <<Eq, Txt("***")>>
                 \o Drop(toks, i + 1 + NonSpaceRun(Drop(toks, i + 1)))
    ELSE toks

RECURSIVE RedactSub(_)
RedactSub(toks) ==
    IF toks = <<>> THEN <<>>
    ELSE IF /\ Len(toks) >= 3
            /\ toks[1].k = "key"
            /\ toks[2].k = "eq"
            /\ toks[3].k # "sp"
         THEN <<toks[1], Eq, Txt("***")>>
                  \o RedactSub(Drop(toks, 2 + NonSpaceRun(Drop(toks, 2))))
         ELSE <<Head(toks)>> \o RedactSub(Tail(toks))

\* Lines 49-53: project a record onto field_list (missing -> ""), then redact
\* every string value.

Shape(r) ==
    [f \in {field_list[i] : i \in 1..Len(field_list)} |->
        LET v == Get(r, f, StrV(<<>>))
        IN  IF v.t = "str" THEN StrV(RedactSub(v.v)) ELSE v]

\* Lines 47-54: items, one per buffered record, in buffer order.
Items(batch) == [i \in 1..Len(batch) |-> Shape(batch[i])]

\* Lines 61-65: the user prompt payload.
PayloadUncapped(batch, bs) ==
    [mode |-> mode, sample_count |-> Len(Items(batch)), data |-> Items(batch)]

Payload(batch, bs) ==
    [mode |-> mode,
     sample_count |-> Len(Items(batch)),
     data |-> Take(Items(batch), bs)]

\* ---- the completion call's outcomes (line 67) and json.loads (line 79)
CallRaises == "<<raises>>"
RespFull == "{insights:[I1],anomalies:[A1],actions:[C1]}"
RespPartial == "{insights:[I1]}"
RespNotJson == "not json"
RespArray == "[1, 2]"
Responses == {RespFull, RespPartial, RespNotJson, RespArray}
\* What the record loop's completion calls do in the explored runs.
CallOutcomes == {RespFull, RespNotJson, RespArray, CallRaises}

Entry(title, detail, conf) == [title |-> title, detail |-> detail, confidence |-> conf]

\* json.loads(out): ok = FALSE is a raised exception; t is the Python type of
\* the value, obj its keys and values when it is a dict.
JsonLoads(out) ==
    CASE out = RespFull ->
            [ok |-> TRUE, t |-> "dict",
             obj |-> [insights |-> <<Entry("I1", "d", "0.9")>>,
                      anomalies |-> <<Entry("A1", "d", "0.9")>>,
                      actions |-> <<Entry("C1", "d", "0.9")>>]]
      [] out = RespPartial ->
            [ok |-> TRUE, t |-> "dict",
             obj |-> [insights |-> <<Entry("I1", "d", "0.9")>>]]
      [] out = RespArray ->
            [ok |-> TRUE, t |-> "list", obj |-> <<>>]
      [] OTHER ->
            [ok |-> FALSE, t |-> "none", obj |-> <<>>]

\* Lines 78-81: parse, falling back to the ParseError insight.
Parsed(out) ==
    IF JsonLoads(out).ok THEN JsonLoads(out)
    ELSE [ok |-> TRUE, t |-> "dict",
          obj |-> [insights |-> <<Entry("ParseError", out, "0.3")>>]]

\* parsed.get(name, []) raises AttributeError unless parsed is a dict.
GetRaises(out) == Parsed(out).t # "dict"

\* json.dumps(value, ensure_ascii=False): the text of a list.
Dumps(v) == [json |-> v]

\* Lines 83-89.

Result(key, batch, bs, out) ==
    [_group |-> key,
     _count |-> Len(Items(batch)),
     insights |-> Dumps(Get(Parsed(out).obj, "insights", <<>>)),
     anomalies |-> Dumps(Get(Parsed(out).obj, "anomalies", <<>>)),
     actions |-> Dumps(Get(Parsed(out).obj, "actions", <<>>))]

\* flush(key), lines 42-92, as a function of the buffer and of what the
\* completion call does:
\*   called  whether client.chat.completions.create was called
\*   raised  whether an exception left flush
\*   emit    the records it returns
\*   cleared whether lines 90-91 ran
\*   payload the request's user prompt, when the call was made
NoPayload == [mode |-> mode, sample_count |-> 0, data |-> <<>>]

\* Nothing done: flush was not called, or returned at line 45.
NoFlush == [called |-> FALSE, raised |-> FALSE, emit |-> <<>>, cleared |-> FALSE,
            payload |-> NoPayload]

Flush(key, batch, bs, outcome) ==
    IF batch = <<>> THEN NoFlush
    ELSE IF outcome = CallRaises \/ GetRaises(outcome) THEN
        [called |-> TRUE, raised |-> TRUE, emit |-> <<>>, cleared |-> FALSE,
         payload |-> Payload(batch, bs)]
    ELSE
        [called |-> TRUE, raised |-> FALSE,
         emit |-> <<Result(key, batch, bs, outcome)>>, cleared |-> TRUE,
         payload |-> Payload(batch, bs)]

Keys == {"a", "b", AllKey}

\* Input records: grouped or not, with a plain, a secret-bearing or a
\* missing msg field.
RecPlain == [host |-> "a", msg |-> StrV(<<Txt("ok")>>)]
RecSecret == [host |-> "b", msg |-> StrV(<<Key("api_key"), Eq, Txt("SECRET123")>>)]
RecBare == [other |-> StrV(<<Txt("x")>>)]
InsightRecords == {RecPlain, RecSecret, RecBare}

EnvNone == "<None>"
Envs == {[OPENAI_API_KEY |-> "sk", OPENAI_MODEL |-> "gpt"],
         [OPENAI_API_KEY |-> EnvNone, OPENAI_MODEL |-> "gpt"],
         [OPENAI_API_KEY |-> "", OPENAI_MODEL |-> "gpt"],
         [OPENAI_API_KEY |-> "sk", OPENAI_MODEL |-> EnvNone]}

\* Python truthiness of an environment string and of an optional integer.
NotStrNoneOnly(x) == x = EnvNone
NotStr(x) == x = EnvNone \/ x = ""
Truthy(x) == x # None /\ x # 0

NoStep == [op |-> "none", key |-> AllKey, n |-> 0, elapsed |-> 0,
           size |-> FALSE, time |-> FALSE, called |-> FALSE, raised |-> FALSE]

InsightInit ==
    /\ pc = "start"
    /\ env \in Envs
    /\ batch_size \in 1..MaxBatch
    /\ window_sec \in {None} \cup (0..MaxWindow)
    /\ buffers = [k \in Keys |-> <<>>]
    /\ first_ts = [k \in Keys |-> None]
    /\ keyOrder = <<>>
    /\ todo = <<>>
    /\ now = 0
    /\ consumed = <<>>
    /\ yielded = <<>>
    /\ calls = <<>>
    /\ last = NoStep
    /\ stamps = [k \in Keys |-> <<>>]

\* Lines 25-33: the credential / model check.
Start ==
    /\ pc = "start"
    /\ pc' = IF NotStr(env.OPENAI_API_KEY) \/ NotStr(env.OPENAI_MODEL)
             THEN "fatal" ELSE "loop"
    /\ UNCHANGED <<env, batch_size, window_sec, buffers, first_ts, keyOrder,
                   todo, now, consumed, yielded, calls, last, stamps>>
    /\ UNCHANGED notInsight

\* Time passes between two input records.
Tick ==
    /\ pc = "loop"
    /\ now < MaxTime
    /\ now' = now + 1
    /\ UNCHANGED <<pc, env, batch_size, window_sec, buffers, first_ts, keyOrder,
                   todo, consumed, yielded, calls, last, stamps>>
    /\ UNCHANGED notInsight

\* Line 91: first_ts.pop(key, None) leaves the key without a start time.
PoppedKeeps(ts) == ts
Popped(ts) == None

\* Line 99: the flush condition after an append.
SizeTriggerAbove(n) == n > batch_size
SizeTrigger(n) == n >= batch_size
TimeTrigger(elapsed) == Truthy(window_sec) /\ elapsed >= window_sec

\* Lines 94-101: one iteration of the record loop.  d is the time that
\* passes between the two clock readings of lines 98 and 99.
RecordStep ==
    /\ pc = "loop"
    /\ Len(consumed) < MaxRecords
    /\ \E r \in InsightRecords, outcome \in CallOutcomes, d \in 0..1 :
        LET key == GroupKey(r)
            buf1 == Append(buffers[key], r)
            ts1 == IF first_ts[key] = None THEN now ELSE first_ts[key]
            elapsed == (now + d) - ts1
            bySize == SizeTrigger(Len(buf1))
            byTime == ~bySize /\ TimeTrigger(elapsed)
            fl == IF bySize \/ byTime
                  THEN Flush(key, buf1, batch_size, outcome)
                  ELSE NoFlush
        IN  /\ now + d <= MaxTime
            /\ now' = now + d
            /\ consumed' = Append(consumed, r)
            /\ keyOrder' = IF \E i \in 1..Len(keyOrder) : keyOrder[i] = key
                           THEN keyOrder ELSE Append(keyOrder, key)
            /\ buffers' = [buffers EXCEPT ![key] = IF fl.cleared THEN <<>> ELSE buf1]
            /\ first_ts' = [first_ts EXCEPT ![key] = IF fl.cleared THEN Popped(ts1) ELSE ts1]
            /\ stamps' = [stamps EXCEPT ![key] = IF fl.cleared THEN <<>> ELSE Append(@, now)]
            /\ yielded' = yielded \o fl.emit
            /\ calls' = IF fl.called
                        THEN Append(calls, [key |-> key, n |-> Len(buf1),
                                            trigger |-> IF bySize THEN "size" ELSE "time",
                                            outcome |-> outcome,
                                            payload |-> fl.payload])
                        ELSE calls
            /\ last' = [op |-> "record", key |-> key, n |-> Len(buf1),
                        elapsed |-> elapsed, size |-> bySize, time |-> byTime,
                        called |-> fl.called, raised |-> fl.raised]
            /\ pc' = IF fl.raised THEN "raised" ELSE "loop"
            /\ UNCHANGED <<env, batch_size, window_sec, todo>>
    /\ UNCHANGED notInsight

\* Line 103: the input is exhausted; list(buffers.keys()) is taken.
EndOfRecords ==
    /\ pc = "loop"
    /\ todo' = keyOrder
    /\ pc' = IF keyOrder = <<>> THEN "done" ELSE "final"
    /\ last' = NoStep
    /\ UNCHANGED <<env, batch_size, window_sec, buffers, first_ts, keyOrder,
                   now, consumed, yielded, calls, stamps>>
    /\ UNCHANGED notInsight

\* Lines 103-105: one iteration of the end-of-stream loop.
FinalFlush ==
    /\ pc = "final"
    /\ todo # <<>>
    /\ \E outcome \in CallOutcomes :
        LET key == Head(todo)
            fl == Flush(key, buffers[key], batch_size, outcome)
        IN  /\ todo' = Tail(todo)
            /\ buffers' = [buffers EXCEPT ![key] = IF fl.cleared THEN <<>> ELSE @]
            /\ first_ts' = [first_ts EXCEPT ![key] = IF fl.cleared THEN Popped(@) ELSE @]
            /\ stamps' = [stamps EXCEPT ![key] = IF fl.cleared THEN <<>> ELSE @]
            /\ yielded' = yielded \o fl.emit
            /\ calls' = IF fl.called
                        THEN Append(calls, [key |-> key, n |-> Len(buffers[key]),
                                            trigger |-> "end",
                                            outcome |-> outcome,
                                            payload |-> fl.payload])
                        ELSE calls
            /\ last' = [op |-> "final", key |-> key, n |-> Len(buffers[key]),
                        elapsed |-> 0, size |-> FALSE, time |-> FALSE,
                        called |-> fl.called, raised |-> fl.raised]
            /\ pc' = IF fl.raised THEN "raised"
                     ELSE IF Tail(todo) = <<>> THEN "done" ELSE "final"
            /\ UNCHANGED <<env, batch_size, window_sec, keyOrder, now, consumed>>
    /\ UNCHANGED notInsight

\* The summarizer at rest, for the specifications of the other parts.
InsightIdle ==
    /\ pc = "idle"
    /\ env = [OPENAI_API_KEY |-> "sk", OPENAI_MODEL |-> "gpt"]
    /\ batch_size = 1
    /\ window_sec = None
    /\ buffers = [k \in Keys |-> <<>>]
    /\ first_ts = [k \in Keys |-> None]
    /\ keyOrder = <<>>
    /\ todo = <<>>
    /\ now = 0
    /\ consumed = <<>>
    /\ yielded = <<>>
    /\ calls = <<>>
    /\ last = NoStep
    /\ stamps = [k \in Keys |-> <<>>]

\* ------------------------------------------------ flush as a function
\* flush applied to any buffer, also one longer than batch_size.
MaxBuf == 3

RECURSIVE SeqsUpTo(_, _)
SeqsUpTo(S, n) ==
    IF n = 0 THEN {<<>>}
    ELSE SeqsUpTo(S, n - 1)
         \cup {Append(xs, x) : xs \in {ys \in SeqsUpTo(S, n - 1) : Len(ys) = n - 1}, x \in S}

NotFlushed == [called |-> FALSE, raised |-> FALSE, emit |-> <<>>, cleared |-> FALSE,
               payload |-> NoPayload, done |-> FALSE]

FlushInit ==
    /\ f_batch \in SeqsUpTo(InsightRecords, MaxBuf)
    /\ f_bs \in 1..MaxBatch
    /\ f_outcome = RespFull
    /\ f_res = NotFlushed

FlushIdle ==
    /\ f_batch = <<>>
    /\ f_bs = 1
    /\ f_outcome = RespFull
    /\ f_res = NotFlushed

\* One call of flush("k") on the buffer.
FlushCall ==
    /\ ~f_res.done
    /\ \E outcome \in Responses \cup {CallRaises} :
        /\ f_outcome' = outcome
        /\ f_res' = [called |-> Flush("k", f_batch, f_bs, outcome).called,
                     raised |-> Flush("k", f_batch, f_bs, outcome).raised,
                     emit |-> Flush("k", f_batch, f_bs, outcome).emit,
                     cleared |-> Flush("k", f_batch, f_bs, outcome).cleared,
                     payload |-> Flush("k", f_batch, f_bs, outcome).payload,
                     done |-> TRUE]
    /\ UNCHANGED <<f_batch, f_bs>>
    /\ UNCHANGED notFlush

\* ------------------------------------------- redaction inside flush
\* flush applied to a buffer of one record whose msg field is a text, a
\* multivalue field, or missing.  The texts are all the short sequences of
\* a key name, "=", another word and a space, and the sentences of a few
\* words separated by spaces.
MaxToks == 5
MaxWords == 2
MaxListToks == 3

RedactToks == {Key("API-Key"), Eq, Txt("s"), Sp}
RedactWords ==
    {<<Txt("user"), Eq, Txt("bob")>>,
     <<Key("PASSWORD"), Eq, Txt("hunter2")>>,
     <<Key("token"), Eq, Txt("abc"), Key("apikey"), Eq, Txt("xyz")>>,
     <<Txt("my"), Key("Token"), Eq, Eq, Txt("abc")>>,
     <<Key("api_key"), Eq>>,
     <<Key("password"), Txt(":"), Txt("abc")>>}

RECURSIVE Sentences(_)
Sentences(n) ==
    IF n = 0 THEN {<<>>}
    ELSE Sentences(n - 1)
         \cup {IF s = <<>> THEN w ELSE s \o <<Sp>> \o w :
                   s \in Sentences(n - 1), w \in RedactWords}

RedactTexts == SeqsUpTo(RedactToks, MaxToks) \cup Sentences(MaxWords)
RedactRecords ==
    {[host |-> "a", msg |-> StrV(toks)] : toks \in RedactTexts}
    \cup {[host |-> "a", msg |-> ListV(toks)] : toks \in SeqsUpTo(RedactToks, MaxListToks)}
    \cup {RecBare}

RedactInit ==
    /\ f_batch \in {<<r>> : r \in RedactRecords}
    /\ f_bs = 1
    /\ f_outcome = RespFull
    /\ f_res = NotFlushed

\* ======================================================================
\*                     openai_streaming.py : the streamer
\* ======================================================================

\* Texts are sequences of characters; the characters of the model are "{",
\* "}" and any other one-symbol strings.
LB == "{"
RB == "}"

\* str(field_value): a string is itself, an integer its decimal text.
Str(v) == v.v

\* f"[FIELD_NOT_FOUND:{placeholder}]", line 67.
Marker(name) == StrV(<<"[FIELD_NOT_FOUND:">> \o name \o <<"]">>)

\* The position of the first "}" of s at or after i, 0 when there is none.
RECURSIVE FirstClose(_, _)
FirstClose(s, i) ==
    IF i > Len(s) THEN 0
    ELSE IF s[i] = RB THEN i
    ELSE FirstClose(s, i + 1)

\* re.findall(r'\{([^}]+)\}', prompt_template), line 63: the names of the
\* leftmost non-overlapping matches, in order.  A match starts at a "{"
\* followed by at least one character other than "}" and then a "}".
RECURSIVE FindAll(_)
FindAll(s) ==
    IF s = <<>> THEN <<>>
    ELSE IF Head(s) = LB /\ FirstClose(s, 2) > 2
         THEN <<SubSeq(s, 2, FirstClose(s, 2) - 1)>> \o FindAll(Drop(s, FirstClose(s, 2)))
         ELSE FindAll(Tail(s))

\* str.replace(old, new) for a non-empty old: every leftmost non-overlapping
\* occurrence.
RECURSIVE Replace(_, _, _)
Replace(s, old, new) ==
    IF Len(s) < Len(old) THEN s
    ELSE IF SubSeq(s, 1, Len(old)) = old
         THEN new \o Replace(Drop(s, Len(old)), old, new)
         ELSE <<Head(s)>> \o Replace(Tail(s), old, new)

\* Lines 66-68: the loop over the placeholders found.
RECURSIVE SubstLoop(_, _, _)
SubstLoop(result_prompt, placeholders, record) ==
    IF placeholders = <<>> THEN result_prompt
    ELSE SubstLoop(
            Replace(result_prompt,
                    <<LB>> \o Head(placeholders) \o <<RB>>,
                    Str(Get(record, Head(placeholders), Marker(Head(placeholders))))),
            Tail(placeholders), record)

\* _substitute_placeholders(prompt_template, record), lines 57-70.

Substitute(prompt_template, record) ==
    SubstLoop(prompt_template, FindAll(prompt_template), record)

\* Whether the call raises: str() of a value it reads raises.
SubstRaises(prompt_template, record) ==
    \E i \in 1..Len(FindAll(prompt_template)) :
        /\ FindAll(prompt_template)[i] \in DOMAIN record
        /\ record[FindAll(prompt_template)[i]].t = "raises"

\* ------------------------------------- substitution as a function
\* Longest template explored.
MaxTplLen == 6

TplChars == {LB, RB, "a", "b"}

\* Field values: plain text, text that holds a placeholder, an integer.
SubstValues == {StrV(<<"x">>), StrV(<<LB, "b", RB>>), StrV(<<LB, "a", RB>>), IntV(3)}

\* Records over the fields a and b, each present or not.
SubstRecords ==
    {[f \in D |-> g[f]] : D \in SUBSET {<<"a">>, <<"b">>},
                          g \in [{<<"a">>, <<"b">>} -> SubstValues]}

NoText == <<"<not called>">>

SubstInit ==
    /\ t_template \in SeqsUpTo(TplChars, MaxTplLen)
    /\ t_record \in SubstRecords
    /\ t_result = NoText

SubstIdle ==
    /\ t_template = <<>>
    /\ t_record = <<>>
    /\ t_result = NoText

\* One call of _substitute_placeholders.
SubstCall ==
    /\ t_result = NoText
    /\ t_result' = Substitute(t_template, t_record)
    /\ UNCHANGED <<t_template, t_record>>
    /\ UNCHANGED notSubst

\* ------------------------------------------ the transport-line loop
\* JSON values as json.loads returns them, tagged with their Python type.
JDict(f) == [t |-> "dict", v |-> f]
JList(xs) == [t |-> "list", v |-> xs]
JStr(cs) == [t |-> "str", v |-> cs]
JNull == [t |-> "null", v |-> <<>>]
JInt == [t |-> "int", v |-> <<>>]
EmptyDict == JDict(<<>>)

\* A chunk {"choices":[{"delta":{"content": c}}]}.
Chunk(c) == JDict([choices |-> JList(<<JDict([delta |-> JDict([content |-> c])])>>)])

\* Transport lines, as response.iter_lines() yields them (UTF-8 text, so
\* that decode() and strip() of line 106 leave the kinds below apart):
\*   blank    b""                            (line 105)
\*   other    text without the "data: " prefix
\*   data     "data: " + body, where body is the text [DONE], text that is
\*            not JSON, or the text of a JSON value
LBlank == [kind |-> "blank", body |-> "", val |-> JNull]
LOther == [kind |-> "other", body |-> "", val |-> JNull]
LDone == [kind |-> "data", body |-> "[DONE]", val |-> JNull]
LNotJson == [kind |-> "data", body |-> "{oops", val |-> JNull]
LData(val) == [kind |-> "data", body |-> "json", val |-> val]

LHel == LData(Chunk(JStr(<<"Hel">>)))
LLo == LData(Chunk(JStr(<<"lo">>)))
LNoChoices == LData(EmptyDict)
LEmptyChoices == LData(JDict([choices |-> JList(<<>>)]))
LNoDelta == LData(JDict([choices |-> JList(<<EmptyDict>>)]))
LNoContent == LData(JDict([choices |-> JList(<<JDict([delta |-> EmptyDict])>>)]))
LNullContent == LData(Chunk(JNull))
LNumber == LData(JInt)

\* `key in x` (lines 121, 123): defined on dict, list and str, a TypeError
\* on None and on a number.
InRaises(x) == x.t \in {"null", "int"}
In(key, x) ==
    CASE x.t = "dict" -> key \in DOMAIN x.v
      [] x.t = "list" -> \E i \in 1..Len(x.v) : x.v[i].t = "str" /\ x.v[i].v = <<key>>
      [] x.t = "str" -> \E i \in 1..Len(x.v) : x.v[i] = key
      [] OTHER -> FALSE

\* Lines 121-125 on a parsed chunk: what is added to openai_response, or the
\* exception raised (any but json.JSONDecodeError, which none of these is).
Skip == [raised |-> FALSE, frag |-> <<>>]
Raise == [raised |-> TRUE, frag |-> <<>>]

Content(delta) ==
    IF InRaises(delta) THEN Raise
    ELSE IF ~In("content", delta) THEN Skip
    ELSE IF delta.t # "dict" THEN Raise
    ELSE IF delta.v.content.t # "str" THEN Raise
    ELSE [raised |-> FALSE, frag |-> delta.v.content.v]

Delta(choice) ==
    IF InRaises(choice) THEN Raise
    ELSE IF ~In("delta", choice) THEN Skip
    ELSE IF choice.t # "dict" THEN Raise
    ELSE Content(choice.v.delta)

Fragment(chunk_data) ==
    IF InRaises(chunk_data) THEN Raise
    ELSE IF ~In("choices", chunk_data) THEN Skip
    ELSE IF chunk_data.t # "dict" THEN Raise
    ELSE IF InRaises(chunk_data.v.choices) THEN Raise
    ELSE IF chunk_data.v.choices.t = "dict"
         THEN (IF DOMAIN chunk_data.v.choices.v = {} THEN Skip ELSE Raise)
    ELSE IF Len(chunk_data.v.choices.v) = 0 THEN Skip
    ELSE IF chunk_data.v.choices.t = "str" THEN Skip
    ELSE Delta(chunk_data.v.choices.v[1])

\* Lines 104-129, one iteration: what reading `line` does to the loop.
\*   stop   the loop is left by break
\*   raised an exception leaves the loop
\*   frag   what is appended to openai_response

LineStep(line) ==
    IF line.kind = "blank" THEN [stop |-> FALSE, raised |-> FALSE, frag |-> <<>>]
    ELSE IF line.kind # "data" THEN [stop |-> FALSE, raised |-> FALSE, frag |-> <<>>]
    ELSE IF line.body = "[DONE]" THEN [stop |-> TRUE, raised |-> FALSE, frag |-> <<>>]
    ELSE IF line.body # "json" THEN [stop |-> FALSE, raised |-> FALSE, frag |-> <<>>]
    ELSE [stop |-> FALSE,
          raised |-> Fragment(line.val).raised,
          frag |-> Fragment(line.val).frag]

\* The whole loop over the lines of a response; ioerror is iter_lines()
\* itself raising (the connection broke).
LIoError == [kind |-> "ioerror", body |-> "", val |-> JNull]

RECURSIVE IterLines(_, _)
IterLines(lines, openai_response) ==
    IF lines = <<>> THEN [raised |-> FALSE, text |-> openai_response]
    ELSE IF Head(lines).kind = "ioerror" THEN [raised |-> TRUE, text |-> openai_response]
    ELSE IF LineStep(Head(lines)).raised THEN [raised |-> TRUE, text |-> openai_response]
    ELSE IF LineStep(Head(lines)).stop THEN [raised |-> FALSE, text |-> openai_response]
    ELSE IterLines(Tail(lines), openai_response \o LineStep(Head(lines)).frag)

\* Longest response explored, in lines.
MaxLines == 3

LineKinds == {LBlank, LOther, LDone, LNotJson, LHel, LLo, LNoChoices,
              LEmptyChoices, LNoDelta, LNoContent, LNullContent, LNumber}

LinesInit ==
    /\ l_lines \in SeqsUpTo(LineKinds, MaxLines)
    /\ l_pos = 0
    /\ l_acc = <<>>
    /\ l_pc = "reading"

LinesIdle ==
    /\ l_lines = <<>>
    /\ l_pos = 0
    /\ l_acc = <<>>
    /\ l_pc = "idle"

\* One iteration of the loop of line 104.
ReadLine ==
    /\ l_pc = "reading"
    /\ l_pos < Len(l_lines)
    /\ l_pos' = l_pos + 1
    /\ l_acc' = l_acc \o LineStep(l_lines[l_pos + 1]).frag
    /\ l_pc' = IF LineStep(l_lines[l_pos + 1]).raised THEN "raised"
               ELSE IF LineStep(l_lines[l_pos + 1]).stop THEN "done"
               ELSE "reading"
    /\ UNCHANGED l_lines
    /\ UNCHANGED notLines

\* iter_lines() is exhausted.
EndOfLines ==
    /\ l_pc = "reading"
    /\ l_pos = Len(l_lines)
    /\ l_pc' = "done"
    /\ UNCHANGED <<l_lines, l_pos, l_acc>>
    /\ UNCHANGED notLines

\* ------------------------------------------------ the streamer's state machine
\* batch_size of stream(), line 43.
StreamBatch == 10
\* Longest input sequence fed to the streamer.
MaxInput == 11
\* How many records or responses of a run may differ from the usual ones.
MaxDev == 1

\* Field names are texts.
K(name) == <<name>>

\* dict(record) followed by update(added): added fields win.
UpdateKeepsOld(record, added) ==
    [f \in DOMAIN record \cup DOMAIN added |->
        IF f \in DOMAIN record THEN record[f] ELSE added[f]]

Update(record, added) ==
    [f \in DOMAIN record \cup DOMAIN added |->
        IF f \in DOMAIN added THEN added[f] ELSE record[f]]

\* self.prompt and OPENAI_MODEL (line 20).
prompt == <<"Host ", LB, "host", RB, " had ", LB, "count", RB, " errors">>
OPENAI_MODEL == StrV(<<"gpt-3.5-turbo">>)

\* The i-th input record: as usual, without the count field, or with a count
\* whose text coercion raises.
Unprintable == [t |-> "raises", v |-> <<>>]
RecBase(i) ==
    [f \in {K("id"), K("host"), K("status"), K("openai_response")} |->
        CASE f = K("id") -> IntV(i)
          [] f = K("host") -> StrV(<<"web1">>)
          [] OTHER -> StrV(<<"from_input">>)]
RecFull(i) == Update(RecBase(i), [f \in {K("count")} |-> IntV(3)])
RecNoCount(i) == RecBase(i)
RecBad(i) == Update(RecBase(i), [f \in {K("count")} |-> Unprintable])

\* What requests.post does: raise, or return a response.
PostRaises == [raises |-> TRUE, status_code |-> 0, lines |-> <<>>]
Response(code, lines) == [raises |-> FALSE, status_code |-> code, lines |-> lines]
UsualPost == Response(200, <<LHel, LLo, LDone>>)
Posts == {UsualPost,
          PostRaises,
          Response(500, <<LOther>>),
          Response(500, <<LHel, LDone>>),
          Response(200, <<LHel, LNullContent, LDone>>),
          Response(200, <<LHel, LIoError>>)}

\* Lines 132-146: the record yielded when the try block completes.

StreamResult(record, processed_prompt, response, openai_response) ==
    LET result ==
            Update(record,
                [f \in {K("_time"), K("original_prompt"), K("processed_prompt"),
                        K("status"), K("response_code"), K("openai_response"),
                        K("model")} |->
                    CASE f = K("_time") -> StrV(<<"time.time()">>)
                      [] f = K("original_prompt") -> StrV(prompt)
                      [] f = K("processed_prompt") -> StrV(processed_prompt)
                      [] f = K("status") ->
                            IF response.status_code = 200
                            THEN StrV(<<"success">>) ELSE StrV(<<"error">>)
                      [] f = K("response_code") -> IntV(response.status_code)
                      [] f = K("openai_response") -> StrV(openai_response)
                      [] OTHER -> OPENAI_MODEL])
    IN  IF response.status_code # 200
        THEN Update(result,
                [f \in {K("error_message")} |->
                    StrV(<<"OpenAI API error: ">> \o Decimal(response.status_code))])
        ELSE result

\* Lines 152-161: the record yielded by the except branch.
ErrorResult(record, message) ==
    Update(record,
        [f \in {K("_time"), K("original_prompt"), K("processed_prompt"), K("status"),
                K("error_message"), K("openai_response"), K("model")} |->
            CASE f = K("_time") -> StrV(<<"time.time()">>)
              [] f = K("original_prompt") -> StrV(prompt)
              [] f = K("processed_prompt") -> StrV(Substitute(prompt, record))
              [] f = K("status") -> StrV(<<"exception">>)
              [] f = K("error_message") -> StrV(<<message>>)
              [] f = K("openai_response") -> StrV(<<>>)
              [] OTHER -> OPENAI_MODEL])

\* Lines 77-162: one iteration of the loop of _process_batch.
\*   exc        where the try block raised: none, subst, post, lines
\*   posted     whether requests.post was called
\*   emit       the records yielded
\*   propagated whether an exception left _process_batch
ProcessOne(record, post) ==
    IF SubstRaises(prompt, record) THEN
        \* line 79 raises; so does line 156, inside the except branch
        [exc |-> "subst", posted |-> FALSE, emit |-> <<>>, propagated |-> TRUE]
    ELSE IF post.raises THEN
        [exc |-> "post", posted |-> TRUE,
         emit |-> <<ErrorResult(record, "ConnectionError")>>, propagated |-> FALSE]
    ELSE IF IterLines(post.lines, <<>>).raised THEN
        [exc |-> "lines", posted |-> TRUE,
         emit |-> <<ErrorResult(record, "error while reading the response")>>,
         propagated |-> FALSE]
    ELSE
        [exc |-> "none", posted |-> TRUE,
         emit |-> <<StreamResult(record, Substitute(prompt, record), post,
                                 IterLines(post.lines, <<>>).text)>>,
         propagated |-> FALSE]

\* No request made in the step.
NoPost == [raises |-> FALSE, status_code |-> 0, lines |-> <<>>]

NoStreamStep == [op |-> "none", exc |-> "none", emitted |-> 0, post |-> NoPost]

StreamInit ==
    /\ s_pc = "start"
    /\ s_key \in {"sk", ""}
    /\ s_in = <<>>
    /\ record_batch = <<>>
    /\ s_idx = 0
    /\ s_eof = FALSE
    /\ s_out = <<>>
    /\ s_posts = 0
    /\ s_dev = 0
    /\ s_last = NoStreamStep

StreamIdle ==
    /\ s_pc = "idle"
    /\ s_key = "sk"
    /\ s_in = <<>>
    /\ record_batch = <<>>
    /\ s_idx = 0
    /\ s_eof = FALSE
    /\ s_out = <<>>
    /\ s_posts = 0
    /\ s_dev = 0
    /\ s_last = NoStreamStep

\* Lines 33-34: the credential check.
StreamStart ==
    /\ s_pc = "start"
    /\ s_pc' = IF NotStr(s_key) THEN "fatal" ELSE "read"
    /\ UNCHANGED <<s_key, s_in, record_batch, s_idx, s_eof, s_out, s_posts, s_dev, s_last>>
    /\ UNCHANGED notStream

\* Lines 46-49: the next input record is read and appended to the batch.
BatchFull(n) == n >= StreamBatch

ReadRecord ==
    /\ s_pc = "read"
    /\ Len(s_in) < MaxInput
    /\ \E record \in {RecFull(Len(s_in) + 1), RecNoCount(Len(s_in) + 1),
                      RecBad(Len(s_in) + 1)} :
        /\ s_dev + (IF record = RecFull(Len(s_in) + 1) THEN 0 ELSE 1) <= MaxDev
        /\ s_dev' = s_dev + (IF record = RecFull(Len(s_in) + 1) THEN 0 ELSE 1)
        /\ s_in' = Append(s_in, record)
        /\ record_batch' = Append(record_batch, record)
        /\ s_pc' = IF BatchFull(Len(record_batch) + 1) THEN "batch" ELSE "read"
        /\ s_idx' = IF BatchFull(Len(record_batch) + 1) THEN 1 ELSE 0
    /\ s_last' = [op |-> "read", exc |-> "none", emitted |-> 0, post |-> NoPost]
    /\ UNCHANGED <<s_key, s_eof, s_out, s_posts>>
    /\ UNCHANGED notStream

\* Lines 53-55: the input is exhausted.
EndOfInput ==
    /\ s_pc = "read"
    /\ s_eof' = TRUE
    /\ s_pc' = IF record_batch # <<>> THEN "batch" ELSE "done"
    /\ s_idx' = IF record_batch # <<>> THEN 1 ELSE 0
    /\ s_last' = [op |-> "eof", exc |-> "none", emitted |-> 0, post |-> NoPost]
    /\ UNCHANGED <<s_key, s_in, record_batch, s_out, s_posts, s_dev>>
    /\ UNCHANGED notStream

\* Lines 76-162 for the next record of the batch, then lines 51 or 55 when
\* it was the last one.
ProcessRecord ==
    /\ s_pc = "batch"
    /\ \E post \in Posts :
        LET res == ProcessOne(record_batch[s_idx], post)
            dev == IF post = UsualPost THEN 0 ELSE 1
            isLast == s_idx = Len(record_batch)
        IN  /\ s_dev + dev <= MaxDev
            /\ s_dev' = s_dev + dev
            /\ s_out' = s_out \o res.emit
            /\ s_posts' = s_posts + (IF res.posted THEN 1 ELSE 0)
            /\ s_last' = [op |-> "process", exc |-> res.exc, emitted |-> Len(res.emit),
                          post |-> IF res.posted THEN post ELSE NoPost]
            /\ s_pc' = IF res.propagated THEN "raised"
                       ELSE IF ~isLast THEN "batch"
                       ELSE IF s_eof THEN "done" ELSE "read"
            /\ s_idx' = IF res.propagated \/ ~isLast THEN s_idx + 1 ELSE 0
            /\ record_batch' = IF ~res.propagated /\ isLast THEN <<>> ELSE record_batch
    /\ UNCHANGED <<s_key, s_in, s_eof>>
    /\ UNCHANGED notStream

\* ======================================================================
\*                           the specifications
\* ======================================================================
InitInsight == InsightInit /\ FlushIdle /\ StreamIdle /\ SubstIdle /\ LinesIdle
NextInsight == Start \/ Tick \/ RecordStep \/ EndOfRecords \/ FinalFlush
SpecInsight == InitInsight /\ [][NextInsight]_vars

InitFlush == InsightIdle /\ FlushInit /\ StreamIdle /\ SubstIdle /\ LinesIdle
NextFlush == FlushCall
SpecFlush == InitFlush /\ [][NextFlush]_vars

InitStream == InsightIdle /\ FlushIdle /\ StreamInit /\ SubstIdle /\ LinesIdle
NextStream == StreamStart \/ ReadRecord \/ EndOfInput \/ ProcessRecord
SpecStream == InitStream /\ [][NextStream]_vars

InitSubst == InsightIdle /\ FlushIdle /\ StreamIdle /\ SubstInit /\ LinesIdle
NextSubst == SubstCall
SpecSubst == InitSubst /\ [][NextSubst]_vars

InitLines == InsightIdle /\ FlushIdle /\ StreamIdle /\ SubstIdle /\ LinesInit
NextLines == ReadLine \/ EndOfLines
SpecLines == InitLines /\ [][NextLines]_vars

InitRedact == InsightIdle /\ RedactInit /\ StreamIdle /\ SubstIdle /\ LinesIdle
NextRedact == FlushCall
SpecRedact == InitRedact /\ [][NextRedact]_vars

\* Either command, run from its start.
InitCommand ==
    /\ \/ InsightInit /\ StreamIdle
       \/ InsightIdle /\ StreamInit
    /\ FlushIdle /\ SubstIdle /\ LinesIdle
NextCommand ==
    \/ Start \/ Tick \/ RecordStep \/ EndOfRecords \/ FinalFlush
    \/ StreamStart \/ ReadRecord \/ EndOfInput \/ ProcessRecord
SpecCommand == InitCommand /\ [][NextCommand]_vars

\* ======================================================================
\*                               the claims
\* ======================================================================

\* ---------------------------------------------------------------- C1
\* How many input records read so far have group key k, and how many
\* records the yielded results with _group = k count.
CountIn(k) == Cardinality({i \in 1..Len(consumed) : GroupKey(consumed[i]) = k})
CountOut(k) ==
    SumSeq([i \in 1..Len(yielded) |->
                IF yielded[i]._group = k THEN yielded[i]._count ELSE 0])

AllCallsReturned == \A i \in 1..Len(calls) : calls[i].outcome # CallRaises

NothingLost == \A k \in Keys : buffers[k] = <<>> /\ CountOut(k) = CountIn(k)

\* C1: with a valid configuration and every completion call returning,
\* stream() runs to its end, and then every group's buffer is empty and every
\* input record is counted in exactly one yielded record of its own group
\* (so the _count values of a group add up to the group's input records).
C1_NoRecordLost ==
    (pc \in {"done", "raised"} /\ AllCallsReturned) => (pc = "done" /\ NothingLost)

\* C1, for the runs whose flushes raised nothing: the accounting itself.
C1_NoRecordLostWhenDone == pc = "done" => NothingLost

\* ---------------------------------------------------------------- C2
\* C2: the size condition is checked after every append: an append that
\* fills a buffer to batch_size flushes it in the same step whatever
\* window_sec and the elapsed time are; a size-triggered flush handles
\* exactly batch_size records, any other flush at most batch_size; between
\* record steps every buffer holds fewer than batch_size records.
C2_SizeTrigger ==
    /\ pc \in {"loop", "final", "done"} =>
            \A k \in Keys : Len(buffers[k]) < batch_size
    /\ (last.op = "record" /\ last.n >= batch_size) => (last.size /\ last.called)
    /\ \A i \in 1..Len(calls) :
            /\ calls[i].n <= batch_size
            /\ calls[i].payload.sample_count = calls[i].n
            /\ calls[i].trigger = "size" => calls[i].n = batch_size

\* C2 witness: a buffer of two records is flushed by size while its
\* one-second window has not expired.
C2_Witness ==
    /\ last.op = "record" /\ last.size /\ last.called
    /\ batch_size = 2 /\ last.n = 2
    /\ window_sec = 1 /\ last.elapsed = 0
    /\ pc = "loop" /\ buffers[last.key] = <<>>

\* ---------------------------------------------------------------- C3
\* C3: for every configured window_sec >= 0 (0 included), an append after
\* which the time elapsed since the buffer's start is >= window_sec flushes
\* the group in the same step, also when the buffer is not full.
C3_TimeTrigger ==
    (last.op = "record" /\ window_sec # None /\ last.elapsed >= window_sec)
        => last.called

\* C3, for window_sec >= 1 only.
C3_TimeTriggerPositive ==
    (last.op = "record" /\ window_sec # None /\ window_sec >= 1
        /\ last.elapsed >= window_sec)
        => last.called

\* ---------------------------------------------------------------- C4
\* C4: a flush of n buffered records reports n as sample_count and as
\* _count, and sends as data exactly the first min(n, batch_size) shaped
\* items, in buffer order.
C4_Truncation ==
    (f_res.done /\ f_batch # <<>>) =>
        /\ f_res.called
        /\ f_res.payload.sample_count = Len(f_batch)
        /\ Len(f_res.payload.data) = Min(Len(f_batch), f_bs)
        /\ \A i \in 1..Len(f_res.payload.data) :
                f_res.payload.data[i] = Shape(f_batch[i])
        /\ \A j \in 1..Len(f_res.emit) : f_res.emit[j]._count = Len(f_batch)

\* C4 witness: three buffered records with batch_size 2: two items are
\* sent, three are reported, in the request and in the yielded record.
C4_Witness ==
    /\ f_res.done /\ Len(f_batch) = 3 /\ f_bs = 2
    /\ Len(f_res.payload.data) = 2
    /\ f_res.payload.sample_count = 3
    /\ Len(f_res.emit) = 1 /\ f_res.emit[1]._count = 3

\* ---------------------------------------------------------------- C5
\* C5: a response text that is not valid structured data (not JSON, or JSON
\* that is not an object) raises nothing, clears the buffer and yields one
\* record whose insights hold the single fallback entry with the raw text
\* and whose anomalies and actions are empty lists.
C5_MalformedResponse ==
    (f_res.done /\ f_batch # <<>> /\ f_outcome \in {RespNotJson, RespArray}) =>
        /\ ~f_res.raised
        /\ f_res.cleared
        /\ Len(f_res.emit) = 1
        /\ f_res.emit[1].insights = Dumps(<<Entry("ParseError", f_outcome, "0.3")>>)
        /\ f_res.emit[1].anomalies = Dumps(<<>>)
        /\ f_res.emit[1].actions = Dumps(<<>>)

\* C5, for text that is not JSON only.
C5_NotJsonResponse ==
    (f_res.done /\ f_batch # <<>> /\ f_outcome = RespNotJson) =>
        /\ ~f_res.raised
        /\ f_res.cleared
        /\ Len(f_res.emit) = 1
        /\ f_res.emit[1].insights = Dumps(<<Entry("ParseError", f_outcome, "0.3")>>)
        /\ f_res.emit[1].anomalies = Dumps(<<>>)
        /\ f_res.emit[1].actions = Dumps(<<>>)

\* ---------------------------------------------------------------- C6
\* C6: once the credential / model check has passed, nothing that happens
\* while records are processed or flushed ends the stream early: no
\* exception leaves stream().
C6_OnlyConfigFatal == pc # "raised"

\* ---------------------------------------------------------------- C7
Last(xs) == xs[Len(xs)]

\* C7: an exception raised anywhere while a record is processed yields
\* exactly one record for it, with status "exception" and an error message,
\* and never leaves _process_batch.
C7_ExceptionIsolation ==
    /\ s_pc # "raised"
    /\ (s_last.op = "process" /\ s_last.exc # "none") =>
            /\ s_last.emitted = 1
            /\ Last(s_out)[K("status")] = StrV(<<"exception">>)
            /\ K("error_message") \in DOMAIN Last(s_out)

\* C7, for the exceptions raised by the request and by the response loop.
C7_IsolationAfterSubstitution ==
    (s_last.op = "process" /\ s_last.exc \in {"post", "lines"}) =>
        /\ s_pc # "raised"
        /\ s_last.emitted = 1
        /\ Last(s_out)[K("status")] = StrV(<<"exception">>)
        /\ K("error_message") \in DOMAIN Last(s_out)

\* ---------------------------------------------------------------- C8
AddedFields == {K("_time"), K("original_prompt"), K("processed_prompt"), K("status"),
                K("response_code"), K("openai_response"), K("model"),
                K("error_message")}

\* The i-th yielded record is the i-th input record plus the added fields.
InOrder ==
    \A i \in 1..Len(s_out) :
        /\ i <= Len(s_in)
        /\ DOMAIN s_in[i] \subseteq DOMAIN s_out[i]
        /\ DOMAIN s_out[i] \subseteq DOMAIN s_in[i] \cup AddedFields
        /\ \A f \in DOMAIN s_in[i] \ AddedFields : s_out[i][f] = s_in[i][f]

\* C8: for every input of n records the streamer ends having issued one
\* request per record and yielded n records, the i-th for the i-th input.
C8_OneToOne ==
    s_pc \in {"done", "raised"} =>
        /\ s_pc = "done"
        /\ Len(s_out) = Len(s_in)
        /\ s_posts = Len(s_in)
        /\ InOrder

\* C8, for the runs that no exception left.
C8_OneToOneWhenDone ==
    /\ InOrder
    /\ s_pc = "done" => (Len(s_out) = Len(s_in) /\ s_posts = Len(s_in))

\* ---------------------------------------------------------------- C9
\* One simultaneous replacement of the template's own placeholders: the
\* template is read once, left to right, and what is put in is not read again.
RECURSIVE SimultaneousReplacement(_, _)
SimultaneousReplacement(s, record) ==
    IF s = <<>> THEN <<>>
    ELSE IF Head(s) = LB /\ FirstClose(s, 2) > 2
         THEN Str(Get(record, SubSeq(s, 2, FirstClose(s, 2) - 1),
                      Marker(SubSeq(s, 2, FirstClose(s, 2) - 1))))
              \o SimultaneousReplacement(Drop(s, FirstClose(s, 2)), record)
         ELSE <<Head(s)>> \o SimultaneousReplacement(Tail(s), record)

\* C9: _substitute_placeholders returns the template with each of its
\* {name} placeholders replaced by the record's field text, or by
\* [FIELD_NOT_FOUND:name], and nothing else changed, whatever the values hold.
C9_Substitution ==
    t_result # NoText => t_result = SimultaneousReplacement(t_template, t_record)

\* --------------------------------------------------------------- C10
\* The content fragment of the first choice of a data line, if it has one.
HasFragment(line) ==
    /\ line.kind = "data" /\ line.body = "json"
    /\ line.val.t = "dict" /\ "choices" \in DOMAIN line.val.v
    /\ line.val.v.choices.t = "list" /\ Len(line.val.v.choices.v) > 0
    /\ line.val.v.choices.v[1].t = "dict"
    /\ "delta" \in DOMAIN line.val.v.choices.v[1].v
    /\ line.val.v.choices.v[1].v.delta.t = "dict"
    /\ "content" \in DOMAIN line.val.v.choices.v[1].v.delta.v
    /\ line.val.v.choices.v[1].v.delta.v.content.t = "str"

RECURSIVE FragmentsBeforeDone(_)
FragmentsBeforeDone(lines) ==
    IF lines = <<>> \/ Head(lines) = LDone THEN <<>>
    ELSE (IF HasFragment(Head(lines))
          THEN Head(lines).val.v.choices.v[1].v.delta.v.content.v ELSE <<>>)
         \o FragmentsBeforeDone(Tail(lines))

\* C10: for every sequence of transport lines the loop ends without an
\* exception and openai_response is the concatenation of the content
\* fragments of the data lines before the first data: [DONE].
C10_Reassembly ==
    l_pc \in {"done", "raised"} =>
        (l_pc = "done" /\ l_acc = FragmentsBeforeDone(l_lines))

\* C10, for the responses whose loop no exception left.
C10_ReassemblyWhenDone ==
    l_pc = "done" => l_acc = FragmentsBeforeDone(l_lines)


\* ---------------------------------------------------------------- C11
\* C11: when the credential is missing (either command) or the model
\* identifier is missing (summarizer), the run aborts before any input
\* record is read, any request is issued and any output record is emitted;
\* and a run aborts at startup for no other reason.
InsightMisconfigured ==
    \/ env.OPENAI_API_KEY \in {EnvNone, ""}
    \/ env.OPENAI_MODEL \in {EnvNone, ""}

StreamMisconfigured == s_key = ""

C11_FatalConfiguration ==
    /\ InsightMisconfigured =>
          /\ pc \in {"start", "fatal"}
          /\ consumed = <<>> /\ calls = <<>> /\ yielded = <<>>
    /\ pc = "fatal" => InsightMisconfigured
    /\ StreamMisconfigured =>
          /\ s_pc \in {"start", "fatal"}
          /\ s_in = <<>> /\ s_posts = 0 /\ s_out = <<>>
    /\ s_pc = "fatal" => StreamMisconfigured

C11_Witness == pc = "fatal" /\ env.OPENAI_MODEL = EnvNone /\ consumed = <<>>


\* ---------------------------------------------------------------- C12
\* The redacted form of a word (a maximal run of non-space tokens): cut
\* after the first key name that is followed by "=" and at least one more
\* token of the word, and put "=***" there.
RedactWord(w) ==
    LET P == {i \in 1..Len(w) : i + 2 <= Len(w) /\ w[i].k = "key" /\ w[i + 1] = Eq}
    IN  IF P = {} THEN w
        ELSE LET i == CHOOSE j \in P : \A h \in P : j <= h
             IN  SubSeq(w, 1, i) \o <<Eq, Txt("***")>>

\* The redacted form of a text, word by word; spaces stay.
RECURSIVE ExpectedRedaction(_)
ExpectedRedaction(toks) ==
    IF toks = <<>> THEN <<>>
    ELSE IF Head(toks) = Sp THEN <<Sp>> \o ExpectedRedaction(Tail(toks))
    ELSE LET n == CHOOSE m \in 1..Len(toks) :
                      /\ \A i \in 1..m : toks[i] # Sp
                      /\ m = Len(toks) \/ toks[m + 1] = Sp
         IN  RedactWord(SubSeq(toks, 1, n))
                 \o ExpectedRedaction(SubSeq(toks, n + 1, Len(toks)))

\* C12: in every item of a request, each configured field that is a
\* string has every key=<non-space run> replaced by the key name as written
\* and "=***", the rest unchanged; a missing configured field is "".
C12_Redaction ==
    f_res.called =>
        /\ Len(f_res.payload.data) = Min(Len(f_batch), f_bs)
        /\ \A i \in 1..Len(f_res.payload.data) :
              LET item == f_res.payload.data[i]
                  r == f_batch[i]
              IN  /\ DOMAIN item = {"msg"}
                  /\ "msg" \notin DOMAIN r => item.msg = StrV(<<>>)
                  /\ ("msg" \in DOMAIN r /\ r.msg.t = "str") =>
                        item.msg = StrV(ExpectedRedaction(r.msg.v))

\* Two assignments in one value, both masked.
C12_Witness ==
    /\ f_res.called
    /\ f_batch = <<[host |-> "a",
                    msg |-> StrV(<<Txt("my"), Key("Token"), Eq, Eq, Txt("abc"), Sp,
                                   Key("PASSWORD"), Eq, Txt("hunter2")>>)]>>
    /\ f_res.payload.data[1].msg =
           StrV(<<Txt("my"), Key("Token"), Eq, Txt("***"), Sp,
                  Key("PASSWORD"), Eq, Txt("***")>>)


\* ---------------------------------------------------------------- C13
\* Each completion call has its output record, for its group and with its
\* count, in call order; no call is made for an empty buffer; every flush
\* of a non-empty buffer makes a call; end-of-stream flushes come last.
OnePerFlush ==
    /\ Len(yielded) = Len(calls)
    /\ \A i \in 1..Len(calls) :
          /\ calls[i].n >= 1
          /\ i <= Len(yielded) =>
                /\ yielded[i]._group = calls[i].key
                /\ yielded[i]._count = calls[i].n
    /\ \A i, j \in 1..Len(calls) :
          (i < j /\ calls[i].trigger = "end") => calls[j].trigger = "end"
    /\ (last.op = "final" /\ last.n = 0) => ~last.called
    /\ (last.op = "final" /\ last.n > 0) => last.called
    /\ (last.op = "record" /\ (last.size \/ last.time)) => last.called

\* C13: every flush of a non-empty buffer issues one completion call and
\* emits one output record with the group key and the true count, a flush
\* of an empty buffer does neither, and the output records are in flush
\* order, append-time flushes before end-of-stream flushes.
C13_OnePerFlush == OnePerFlush

\* The same while no flush has raised.
C13_OnePerFlushReturning == pc # "raised" => OnePerFlush


\* ---------------------------------------------------------------- C14
\* C14: between record steps a group has a start time exactly when its
\* buffer is non-empty, it is the time at which the oldest buffered record
\* was appended, and a group just flushed has none.
C14_StartTime ==
    pc \in {"loop", "final", "done"} =>
        /\ \A k \in Keys :
              /\ first_ts[k] # None <=> buffers[k] # <<>>
              /\ Len(stamps[k]) = Len(buffers[k])
              /\ buffers[k] # <<>> => first_ts[k] = stamps[k][1]
        /\ (last.op \in {"record", "final"} /\ last.called) =>
              first_ts[last.key] = None /\ buffers[last.key] = <<>>

\* A group flushed at time 0 holds a record appended at time 1.
C14_Witness ==
    /\ pc = "loop"
    /\ last.op = "record" /\ last.key = "a" /\ ~last.called
    /\ \E i \in 1..Len(calls) : calls[i].key = "a"
    /\ first_ts["a"] = 1
    /\ Len(buffers["a"]) = 1


\* ---------------------------------------------------------------- C15
\* The group a record belongs to: its host field, or the sentinel.
RecordKey(r) == IF "host" \in DOMAIN r THEN r.host ELSE "__all__"

\* A step that reads a record touches its group only.
RecordStepFrame ==
    (pc = "loop" /\ consumed' # consumed) =>
        LET key == RecordKey(consumed'[Len(consumed')])
        IN  /\ \A k \in Keys \ {key} :
                  buffers'[k] = buffers[k] /\ first_ts'[k] = first_ts[k]
            /\ Len(yielded') <= Len(yielded) + 1
            /\ SubSeq(yielded', 1, Len(yielded)) = yielded
            /\ Len(yielded') = Len(yielded) + 1 => yielded'[Len(yielded')]._group = key
            /\ Len(calls') <= Len(calls) + 1
            /\ Len(calls') = Len(calls) + 1 => calls'[Len(calls')].key = key

\* Before the end of the stream, a step that reads no record flushes nothing.
NoFlushWithoutAppend ==
    (pc = "loop" /\ consumed' = consumed) =>
        /\ buffers' = buffers /\ first_ts' = first_ts
        /\ yielded' = yielded /\ calls' = calls

\* C15: a record of group K changes only K's buffer and start time and
\* emits at most one record, for K; before the end of the stream a group is
\* flushed only in a step that appended a record of its own key.
C15_GroupIsolation == [][RecordStepFrame /\ NoFlushWithoutAppend]_vars

\* Group a sits with an expired window while a record of group b is read.
C15_Witness ==
    /\ pc = "loop"
    /\ last.op = "record" /\ last.key = "b"
    /\ buffers["a"] # <<>>
    /\ Truthy(window_sec) /\ now - first_ts["a"] >= window_sec


\* ---------------------------------------------------------------- C16
StatusTags == {StrV(<<"success">>), StrV(<<"error">>), StrV(<<"exception">>)}

\* C16: the status of every output record is success, error or exception:
\* success iff no exception was raised and the code is 200, error iff none
\* was raised and the code is another one (openai_response then holds the
\* parsed body and error_message names the code), exception iff one was
\* raised (openai_response is then empty); status and openai_response are
\* never the input record's.
C16_StatusTag ==
    /\ \A i \in 1..Len(s_out) :
          /\ s_out[i][K("status")] \in StatusTags
          /\ s_out[i][K("openai_response")] # StrV(<<"from_input">>)
    /\ (s_last.op = "process" /\ s_last.emitted = 1) =>
          LET o == s_out[Len(s_out)]
              post == s_last.post
              raised == s_last.exc # "none"
          IN  /\ o[K("status")] = StrV(<<"success">>)
                    <=> (~raised /\ post.status_code = 200)
              /\ o[K("status")] = StrV(<<"error">>)
                    <=> (~raised /\ post.status_code # 200)
              /\ o[K("status")] = StrV(<<"exception">>) <=> raised
              /\ o[K("status")] = StrV(<<"error">>) =>
                    /\ o[K("openai_response")] = StrV(FragmentsBeforeDone(post.lines))
                    /\ o[K("error_message")] =
                           StrV(<<"OpenAI API error: ">> \o Decimal(post.status_code))
              /\ o[K("status")] = StrV(<<"exception">>) =>
                    o[K("openai_response")] = StrV(<<>>)

\* A response with code 500 whose body carries a fragment.
C16_Witness ==
    /\ s_last.op = "process" /\ s_last.emitted = 1
    /\ s_last.post = Response(500, <<LHel, LDone>>)
    /\ s_out[Len(s_out)][K("status")] = StrV(<<"error">>)
    /\ s_out[Len(s_out)][K("openai_response")] = StrV(<<"Hel">>)
    /\ s_in[Len(s_out)][K("status")] = StrV(<<"from_input">>)


\* ---------------------------------------------------------------- C17
\* A text with every secret part (the non-space run after a key name and
\* "=") replaced by the secret s.
RECURSIVE WithSecrets(_, _)
WithSecrets(toks, s) ==
    IF toks = <<>> THEN <<>>
    ELSE IF MatchAt(toks, 1)
         THEN <<toks[1], Eq, s>>
                  \o WithSecrets(Drop(toks, 2 + NonSpaceRun(Drop(toks, 2))), s)
         ELSE <<Head(toks)>> \o WithSecrets(Tail(toks), s)

\* The input that differs from batch only in the secret parts of the values
\* of the configured fields.
OtherSecrets(batch) ==
    [i \in 1..Len(batch) |->
        [f \in DOMAIN batch[i] |->
            IF \E j \in 1..Len(field_list) : field_list[j] = f
            THEN [t |-> batch[i][f].t,
                  v |-> WithSecrets(batch[i][f].v, Txt("another-secret"))]
            ELSE batch[i][f]]]

SamePayload == f_res.called => Payload(OtherSecrets(f_batch), f_bs) = f_res.payload

\* C17: two inputs that differ only in the secret parts of the values of
\* the configured fields give the same request payload, whatever the type
\* of the values.
C17_Noninterference == SamePayload

\* The same for inputs whose configured fields are strings or missing.
C17_NoninterferenceOfStrings ==
    (\A i \in 1..Len(f_batch) :
        \A j \in 1..Len(field_list) :
            field_list[j] \in DOMAIN f_batch[i] => f_batch[i][field_list[j]].t = "str")
    => SamePayload

====
